---- MODULE Spec2Model ----
(***************************************************************************)
(* Game lifecycle scheduler, selection engine and signup/waitlist handlers *)
(* of the hoops backend (src/app/scheduler.py, src/app/algorithms.py,      *)
(* src/app/main.py, src/app/database.py), modelled for one game.           *)
(*                                                                         *)
(* The store (SQLite) is the shared state.  Every request handler and the  *)
(* poll loop use a connection of their own: statements issued before a     *)
(* commit become visible to the others at the commit, and the coroutines   *)
(* interleave at their awaits.  One action of the model is one handler     *)
(* segment between two points where another connection can observe or     *)
(* change the store: the reads a handler takes its decision from, or the   *)
(* writes it commits together.                                             *)
(***************************************************************************)
EXTENDS Integers, Sequences, FiniteSets, TLC

VARIABLES
    game,       \* the games row
    signups,    \* the game_signups rows of the game
    next_id,    \* next AUTOINCREMENT id of game_signups
    now,        \* the clock (CURRENT_TIMESTAMP / datetime.now)
    jobs,       \* the scheduler_jobs rows of the game, by job_type
    req,        \* the request handlers in flight, by worker
    task,       \* the schedule_game_notifications task created by create_game
    sched,      \* the poll loop: its position, the due jobs it fetched, its row copies
    signup_open,\* game_notifications: the signup_open rows of each player, counted
    sel_log,    \* the entry points whose run_random_selection committed, in order
    requests,   \* the requests received so far
    promoted    \* the players sent a waitlist-promotion notification

vars == <<game, signups, next_id, now, jobs, signup_open, req, task, sched, sel_log,
          requests, promoted>>

(***************************************************************************)
(* Bounds                                                                  *)
(***************************************************************************)
MaxPlayers == 4
MaxCap == 3

(***************************************************************************)
(* Program constants                                                       *)
(***************************************************************************)
MinCap == 2
NoCap == 999999

Players == 1..MaxPlayers
Caps == MinCap..MaxCap
Null == "null"
\* NULL in a timestamp column
NoTime == -1

Algorithms == {"first_come", "random", "weighted"}

\* group_members.priority of each player (COALESCE(gm.priority, 'standard')):
\* a roster attribute the core only reads.
Priority(p) ==
    CASE p % 3 = 1 -> "high"
      [] p % 3 = 2 -> "standard"
      [] OTHER     -> "low"

(***************************************************************************)
(* Sequence helpers                                                        *)
(***************************************************************************)
Range(s) == {s[i] : i \in 1..Len(s)}

\* the orders random.shuffle can leave a list of n elements in
Perms(n) == {f \in [1..n -> 1..n] : \A i, j \in 1..n : i # j => f[i] # f[j]}

Shuffle(s, f) == [i \in 1..Len(s) |-> s[f[i]]]

\* the entries s[i] with i < available (0-based i, as enumerate gives them)
Prefix(s, n) == [i \in 1..(IF n <= 0 THEN 0 ELSE IF n >= Len(s) THEN Len(s) ELSE n) |-> s[i]]
Suffix(s, n) == LET k == IF n <= 0 THEN 0 ELSE IF n >= Len(s) THEN Len(s) ELSE n
                IN  [i \in 1..(Len(s) - k) |-> s[k + i]]

\* ORDER BY gs.signed_up_at ASC (rows of one timestamp in rowid order)
RECURSIVE OrderBySignedUpAt(_)
OrderBySignedUpAt(S) ==
    IF S = {} THEN <<>>
    ELSE LET m == CHOOSE r \in S : \A q \in S :
                      r.at < q.at \/ (r.at = q.at /\ r.id <= q.id)
         IN  <<m>> \o OrderBySignedUpAt(S \ {m})

(***************************************************************************)
(* Selection engine: run_random_selection                                  *)
(***************************************************************************)
Cap_NoLimit(g) == NoCap
\* cap = game["cap"] if game["cap_enabled"] else 999999
Cap(g) == IF g.cap_enabled THEN g.cap ELSE NoCap

OwnerAdded(rows) == SelectSeq(rows, LAMBDA s : s.owner_added)
Remaining(rows) == SelectSeq(rows, LAMBDA s : ~s.owner_added)

\* available after the owner-added loop (may go negative)
AvailableAfterOwner(g, rows) == Cap(g) - Len(OwnerAdded(rows))

HighPri(g, rows) ==
    IF g.random_high_auto
    THEN SelectSeq(Remaining(rows), LAMBDA s : Priority(s.player) = "high")
    ELSE <<>>
Others(g, rows) ==
    IF g.random_high_auto
    THEN SelectSeq(Remaining(rows), LAMBDA s : Priority(s.player) # "high")
    ELSE Remaining(rows)

HighFits_Always(high, available) == TRUE
\* if len(high_pri) <= available
HighFits(high, available) == Len(high) <= available

\* the high-priority signups set in; hs is high_pri after random.shuffle
HighIn(high, hs, available) ==
    IF HighFits(high, available) THEN high ELSE Prefix(hs, available)
HighWaitlist(high, hs, available) ==
    IF HighFits(high, available) THEN <<>> ELSE Suffix(hs, available)

AvailableAfterHigh_NoDecrement(g, rows) == AvailableAfterOwner(g, rows)
\* available when the others are drawn
AvailableAfterHigh(g, rows) ==
    IF g.random_high_auto
    THEN IF HighFits(HighPri(g, rows), AvailableAfterOwner(g, rows))
         THEN AvailableAfterOwner(g, rows) - Len(HighPri(g, rows))
         ELSE 0
    ELSE AvailableAfterOwner(g, rows)

OthersWaitlist_NoOverflow(os, available) ==
    IF available > 0 /\ os # <<>> THEN Suffix(os, available) ELSE <<>>
\* os is others after random.shuffle
OthersIn(os, available) ==
    IF available > 0 /\ os # <<>> THEN Prefix(os, available) ELSE <<>>
OthersWaitlist(os, available) ==
    IF available > 0 /\ os # <<>> THEN Suffix(os, available) ELSE os

OwnerIn_Capped(g, rows) == Prefix(OwnerAdded(rows), Cap(g))
\* 1. Owner-added players are automatically in
OwnerIn(g, rows) == OwnerAdded(rows)

SelectionResult_OthersFirst(g, rows, hf, of) ==
    LET high == HighPri(g, rows)
        hs   == Shuffle(high, hf)
        os   == Shuffle(Others(g, rows), of)
        a1   == AvailableAfterOwner(g, rows)
        a2   == AvailableAfterHigh(g, rows)
    IN  [in_players       |-> OwnerIn(g, rows) \o HighIn(high, hs, a1) \o OthersIn(os, a2),
         waitlist_players |-> OthersWaitlist(os, a2) \o HighWaitlist(high, hs, a1)]
\* in_players and waitlist_players of one run over the rows read, for the
\* shuffle outcomes hf (of high_pri) and of (of others)
SelectionResult(g, rows, hf, of) ==
    LET high == HighPri(g, rows)
        hs   == Shuffle(high, hf)
        os   == Shuffle(Others(g, rows), of)
        a1   == AvailableAfterOwner(g, rows)
        a2   == AvailableAfterHigh(g, rows)
    IN  [in_players       |-> OwnerIn(g, rows) \o HighIn(high, hs, a1) \o OthersIn(os, a2),
         waitlist_players |-> HighWaitlist(high, hs, a1) \o OthersWaitlist(os, a2)]

Ids(rows) == {rows[i].id : i \in 1..Len(rows)}

\* waitlist_info, lines 116-120: {"player_id", "position": i + 1} for the
\* 0-based i of enumerate(waitlist_players)
WaitlistInfo(wl) ==
    [k \in 1..Len(wl) |-> [player_id |-> wl[k].player, position |-> (k - 1) + 1]]

\* the UPDATE game_signups SET status = ... WHERE id = ? statements of one run
ApplySelection(S, res) ==
    {IF s.id \in Ids(res.in_players) THEN [s EXCEPT !.status = "in"]
     ELSE IF s.id \in Ids(res.waitlist_players) THEN [s EXCEPT !.status = "waitlist"]
     ELSE s : s \in S}

\* the same UPDATE statements in the order lines 50-107 issue them: the in
\* updates as in_players is appended to, then the waitlist updates
SelectionUpdates(res) ==
    [i \in 1..Len(res.in_players) |-> [id |-> res.in_players[i].id, status |-> "in"]]
    \o [i \in 1..Len(res.waitlist_players) |->
           [id |-> res.waitlist_players[i].id, status |-> "waitlist"]]

\* the signups once the first k of the statements u have been executed
RECURSIVE ApplyUpdates(_, _, _)
ApplyUpdates(S, u, k) ==
    IF k = 0 THEN S
    ELSE {IF s.id = u[k].id THEN [s EXCEPT !.status = u[k].status] ELSE s :
          s \in ApplyUpdates(S, u, k - 1)}

\* UPDATE games SET selection_done = 1, phase = 'active'
MarkSelectionDone(g) == [g EXCEPT !.selection_done = TRUE, !.phase = "active"]

(***************************************************************************)
(* State                                                                   *)
(***************************************************************************)
JobTypes == {"notify_high", "notify_standard", "notify_low", "run_selection"}
NoJob == [status |-> "none"]

Workers == {1, 2}
Idle == [pc |-> "idle"]
\* notify_at is the argument schedule_game_notifications is called with
\* g before the game row is read
NoRow == [row |-> Null]
NoTask == [pc |-> "none", calls |-> 0, g |-> NoRow, start |-> 0, notify_at |-> NoTime]
SchedIdle == [pc |-> "sleep", due |-> <<>>, start |-> 0, g |-> NoRow, rows |-> <<>>]

\* no request in flight, the poll loop asleep, no selection run yet
NoRequests ==
    /\ req = [w \in Workers |-> Idle]
    /\ sched = SchedIdle
    /\ sel_log = <<>>
    /\ requests = 0
    /\ promoted = {}

InCount(S) == Cardinality({s \in S : s.status = "in"})
OwnerCount(S) == Cardinality({s \in S : s.owner_added})

(***************************************************************************)
(* SpecSel: the selection engine alone, run over every bounded game and    *)
(* signup population, any number of times                                  *)
(***************************************************************************)
SelKinds == {"none", "owner", "self"}

InitSel ==
    /\ \E alg \in {"random"}, cap \in Caps, ce \in BOOLEAN, ha \in BOOLEAN :
         game = [algorithm |-> alg, cap |-> cap, cap_enabled |-> ce,
                 random_high_auto |-> ha, phase |-> "signup",
                 selection_done |-> FALSE, closed |-> FALSE,
                 notified_at |-> 0, notify_future_at |-> NoTime]
    /\ \E k \in [Players -> SelKinds] :
         signups = {[id |-> p, player |-> p, status |-> "pending",
                     owner_added |-> (k[p] = "owner"), at |-> p] :
                    p \in {q \in Players : k[q] # "none"}}
    /\ now = MaxPlayers
    /\ next_id = MaxPlayers + 1
    /\ signup_open = [p \in Players |-> 0]
    /\ jobs = [t \in JobTypes |-> NoJob]
    /\ task = NoTask
    /\ NoRequests

\* one whole run_random_selection with nothing interleaved
RunSelection ==
    LET rows == OrderBySignedUpAt(signups) IN
    \E hf \in Perms(Len(HighPri(game, rows))), of \in Perms(Len(Others(game, rows))) :
        /\ signups' = ApplySelection(signups, SelectionResult(game, rows, hf, of))
        /\ game' = MarkSelectionDone(game)
        /\ UNCHANGED <<next_id, now, jobs, signup_open, req, task, sched, sel_log, requests, promoted>>

NextSel == RunSelection

SpecSel == InitSel /\ [][NextSel]_vars

(***************************************************************************)
(* Request handlers (src/app/main.py).  req[w] is the handler worker w is  *)
(* running and the values it holds between its awaits.                     *)
(***************************************************************************)
MaxRequests == 2

Busy(w) == req[w].pc # "idle"
RowOf(S, p) == {s \in S : s.player = p}

\* a request arrives at an idle worker
Receive(w) ==
    /\ ~Busy(w)
    /\ requests < MaxRequests
    /\ requests' = requests + 1

SignupStatus_AnyFirstCome(g, S) ==
    IF g.algorithm = "first_come"
    THEN IF InCount(S) < Cap(g) THEN "in" ELSE "waitlist"
    ELSE "pending"
\* signup_for_game, lines 1230-1247: the game row, the already-signed-up check
\* and the status the new signup gets from the live in-count
SignupStatus(g, S) ==
    IF g.algorithm = "first_come" /\ g.selection_done
    THEN IF InCount(S) < Cap(g) THEN "in" ELSE "waitlist"
    ELSE "pending"

SignupCheck(w, p) ==
    /\ Receive(w)
    /\ ~game.closed
    /\ RowOf(signups, p) = {}
    /\ req' = [req EXCEPT ![w] = [pc |-> "signup_insert", player |-> p,
                                   status |-> SignupStatus(game, signups)]]
    /\ UNCHANGED <<game, signups, next_id, now, jobs, signup_open, task, sched, sel_log, promoted>>

\* lines 1248-1251: INSERT INTO game_signups (a UNIQUE(game_id, player_id)
\* conflict raises and inserts nothing) and commit
SignupInsert(w) ==
    /\ req[w].pc = "signup_insert"
    /\ IF RowOf(signups, req[w].player) = {}
       THEN /\ signups' = signups \cup
                  {[id |-> next_id, player |-> req[w].player, status |-> req[w].status,
                    owner_added |-> FALSE, at |-> now]}
            /\ next_id' = next_id + 1
       ELSE UNCHANGED <<signups, next_id, requests, promoted>>
    /\ req' = [req EXCEPT ![w] = Idle]
    /\ UNCHANGED <<game, now, jobs, signup_open, task, sched, sel_log, requests, promoted>>

DropDelete_AlwaysNext(w, p) ==
    /\ Receive(w)
    /\ \E s \in RowOf(signups, p) :
         /\ signups' = signups \ {s}
         /\ req' = [req EXCEPT ![w] = [pc |-> "drop_next", player |-> p]]
    /\ UNCHANGED <<game, next_id, now, jobs, signup_open, task, sched, sel_log, promoted>>
\* drop_from_game, lines 1266-1272: read the signup, delete it, commit
DropDelete(w, p) ==
    /\ Receive(w)
    /\ \E s \in RowOf(signups, p) :
         /\ signups' = signups \ {s}
         /\ req' = [req EXCEPT ![w] =
                IF s.status = "in" THEN [pc |-> "drop_next", player |-> p]
                ELSE Idle]
    /\ UNCHANGED <<game, next_id, now, jobs, signup_open, task, sched, sel_log, promoted>>

NextUp_Latest(S) ==
    {s \in S : s.status = "waitlist" /\
               \A q \in S : q.status = "waitlist" => s.at >= q.at}
\* SELECT ... WHERE status='waitlist' ORDER BY signed_up_at LIMIT 1: the rows
\* the statement can return (any one of those sharing the earliest timestamp)
NextUp(S) ==
    {s \in S : s.status = "waitlist" /\
               \A q \in S : q.status = "waitlist" => s.at <= q.at}

\* lines 1274-1282: was_in; read the game; select the head of the waitlist
DropSelectNext(w) ==
    /\ req[w].pc = "drop_next"
    /\ IF game.algorithm = "first_come" /\ game.selection_done /\ NextUp(signups) # {}
       THEN \E s \in NextUp(signups) :
              req' = [req EXCEPT ![w] = [pc |-> "drop_promote", player |-> req[w].player,
                                          next_up |-> [id |-> s.id, player |-> s.player]]]
       ELSE req' = [req EXCEPT ![w] = Idle]
    /\ UNCHANGED <<game, signups, next_id, now, jobs, signup_open, task, sched, sel_log, requests, promoted>>

\* lines 1283-1286: UPDATE game_signups SET status='in' WHERE id = next_up.id,
\* commit, and the promotion notification to next_up.player_id
DropPromote(w) ==
    /\ req[w].pc = "drop_promote"
    /\ signups' = {IF s.id = req[w].next_up.id THEN [s EXCEPT !.status = "in"] ELSE s :
                   s \in signups}
    /\ promoted' = promoted \cup {req[w].next_up.player}
    /\ req' = [req EXCEPT ![w] = Idle]
    /\ UNCHANGED <<game, next_id, now, jobs, signup_open, task, sched, sel_log, requests>>

\* add_player_to_game, lines 1302-1309: INSERT OR IGNORE ... ('in', owner_added 1)
AddPlayer(w, p) ==
    /\ Receive(w)
    /\ RowOf(signups, p) = {}
    /\ signups' = signups \cup {[id |-> next_id, player |-> p, status |-> "in",
                                 owner_added |-> TRUE, at |-> now]}
    /\ next_id' = next_id + 1
    /\ UNCHANGED <<game, now, jobs, signup_open, req, task, sched, sel_log, promoted>>

ManualSelectionRead_AnyAlgorithm(w) ==
    /\ Receive(w)
    /\ req' = [req EXCEPT ![w] = [pc |-> "sel_commit", g |-> game,
                                   rows |-> OrderBySignedUpAt(signups)]]
    /\ UNCHANGED <<game, signups, next_id, now, jobs, signup_open, task, sched, sel_log, promoted>>
\* run_selection, lines 1214-1219, and run_random_selection, lines 25-45:
\* 400 unless the game is random; then the game row and the signups are read
ManualSelectionRead(w) ==
    /\ Receive(w)
    /\ game.algorithm = "random"
    /\ req' = [req EXCEPT ![w] = [pc |-> "sel_commit", g |-> game,
                                   rows |-> OrderBySignedUpAt(signups)]]
    /\ UNCHANGED <<game, signups, next_id, now, jobs, signup_open, task, sched, sel_log, promoted>>

\* run_random_selection, lines 47-114: the status UPDATEs, selection_done and
\* phase, committed together
ManualSelectionCommit(w) ==
    /\ req[w].pc = "sel_commit"
    /\ \E hf \in Perms(Len(HighPri(req[w].g, req[w].rows))),
          of \in Perms(Len(Others(req[w].g, req[w].rows))) :
         signups' = ApplySelection(signups,
                        SelectionResult(req[w].g, req[w].rows, hf, of))
    /\ game' = MarkSelectionDone(game)
    /\ sel_log' = Append(sel_log, "manual")
    /\ req' = [req EXCEPT ![w] = Idle]
    /\ UNCHANGED <<next_id, now, jobs, signup_open, task, sched, requests, promoted>>

\* close_game / cancel_game, lines 1182-1188 and 1198-1204
CloseGame(ph) ==
    /\ game' = [game EXCEPT !.closed = TRUE, !.phase = ph]
    /\ jobs' = [t \in JobTypes |->
                  IF jobs[t].status = "pending" THEN [jobs[t] EXCEPT !.status = "completed"]
                  ELSE jobs[t]]
    /\ UNCHANGED <<signups, next_id, now, signup_open, req, task, sched, sel_log, requests, promoted>>

(***************************************************************************)
(* Notification tiers and the cascade (src/app/scheduler.py)               *)
(***************************************************************************)
\* players.priority, the column the notification queries read; the migration
\* copies it into group_members.priority
PlayerPriority(p) == Priority(p)

\* INSERT OR IGNORE INTO game_signups (..., 'pending', 1) for each player of ps,
\* with the ids the AUTOINCREMENT hands out from id0
RECURSIVE AutoSignup(_, _, _, _)
AutoSignup(S, ps, id0, t) ==
    IF ps = {} THEN S
    ELSE LET p == CHOOSE q \in ps : \A r \in ps : q <= r
         IN  IF RowOf(S, p) # {}
             THEN AutoSignup(S, ps \ {p}, id0, t)
             ELSE AutoSignup(S \cup {[id |-> id0, player |-> p, status |-> "pending",
                                       owner_added |-> TRUE, at |-> t]},
                             ps \ {p}, id0 + 1, t)

AutoAdmits(g) == g.algorithm = "random" /\ g.random_high_auto

\* notify_game_signup_open: one signup_open row per player notified
LogSignupOpen(n, ps) == [p \in Players |-> IF p \in ps THEN n[p] + 1 ELSE n[p]]

\* _notify_priority_tier, lines 236-246: the approved players of the tier with
\* no signup_open row for the game
TierToNotify(pr) == {p \in Players : PlayerPriority(p) = pr /\ signup_open[p] = 0}

NotifyPriorityTier_NoAutoAdmit(pr, g) ==
    /\ UNCHANGED <<signups, next_id>>
    /\ signup_open' = LogSignupOpen(signup_open, TierToNotify(pr))
\* _notify_priority_tier as a whole: the auto-signups and the notifications
NotifyPriorityTier(pr, g) ==
    LET ps == TierToNotify(pr)
        S  == IF pr = "high" /\ AutoAdmits(g)
              THEN AutoSignup(signups, ps, next_id, now) ELSE signups
    IN  /\ signups' = S
        /\ next_id' = next_id + Cardinality(S) - Cardinality(signups)
        /\ signup_open' = LogSignupOpen(signup_open, ps)

\* the parameters get_setting declares (db, key, group_id) and the arguments
\* _schedule_cascade_jobs passes it (db, key)
GetSettingParams == 3
CascadeGetSettingArgs == 2

\* the call get_setting(db, "high_priority_delay_minutes") raises TypeError
ScheduleCascadeRaises == CascadeGetSettingArgs # GetSettingParams

NewJob(at) == [status |-> "pending", scheduled_at |-> at, executed_at |-> NoTime,
               error_message |-> Null]

\* INSERT OR IGNORE INTO scheduler_jobs under UNIQUE(game_id, job_type)
InsertOrIgnoreJob(J, jt, at) == IF J[jt].status = "none" THEN [J EXCEPT ![jt] = NewJob(at)] ELSE J

\* the rows lines 307-338 insert for the delays hp, alt, rw
CascadeRows(J, alg, start, hp, alt, rw) ==
    LET J1 == InsertOrIgnoreJob(J, "notify_standard", start + hp)
        J2 == InsertOrIgnoreJob(J1, "notify_low", start + hp + alt)
    IN  IF alg = "random" THEN InsertOrIgnoreJob(J2, "run_selection", start + hp + rw)
        ELSE J2

\* DEFAULT_SETTINGS, in hours
HpDelay == 1
AltDelay == 24
RandWait == 1

ScheduleCascadeJobs_Replace(J, alg, start) ==
    [t \in JobTypes |-> IF t \in {"notify_standard", "notify_low"}
                        THEN NewJob(start) ELSE J[t]]
\* _schedule_cascade_jobs: the job rows it leaves
ScheduleCascadeJobs(J, alg, start) ==
    IF ScheduleCascadeRaises THEN J
    ELSE CascadeRows(J, alg, start, HpDelay, AltDelay, RandWait)

(***************************************************************************)
(* schedule_game_notifications: the task create_game starts                *)
(***************************************************************************)
MaxCascadeCalls == 2

\* lines 376-392: read the game; `if not notify_at`: the immediate start sets
\* notified_at and phase
TaskStart ==
    /\ task.pc = "start"
    /\ IF task.notify_at = NoTime
       THEN /\ game' = [game EXCEPT !.notified_at = now, !.phase = "notifying_high"]
            /\ task' = [task EXCEPT !.pc = "notify", !.g = game, !.start = now]
       ELSE /\ task' = [task EXCEPT !.pc = "done"]
            /\ UNCHANGED game
    /\ UNCHANGED <<signups, next_id, now, jobs, signup_open, req, sched, sel_log, requests, promoted>>

\* lines 394-416: every approved high-priority player is auto-admitted (random
\* game with random_high_auto) and notified
TaskNotifyHigh ==
    /\ task.pc = "notify"
    /\ LET ps == {p \in Players : PlayerPriority(p) = "high"}
           S  == IF AutoAdmits(task.g) THEN AutoSignup(signups, ps, next_id, now)
                 ELSE signups
       IN  /\ signups' = S
           /\ next_id' = next_id + Cardinality(S) - Cardinality(signups)
           /\ signup_open' = LogSignupOpen(signup_open, ps)
    /\ task' = [task EXCEPT !.pc = "cascade"]
    /\ UNCHANGED <<game, now, jobs, req, sched, sel_log, requests, promoted>>

\* lines 418-422: _schedule_cascade_jobs; an exception ends the task
TaskScheduleCascade ==
    /\ task.pc = "cascade"
    /\ jobs' = ScheduleCascadeJobs(jobs, game.algorithm, task.start)
    /\ task' = [task EXCEPT !.pc = IF ScheduleCascadeRaises THEN "raised" ELSE "done"]
    /\ UNCHANGED <<game, signups, next_id, now, signup_open, req, sched, sel_log, requests, promoted>>

\* schedule_game_notifications called again for the game
TaskAgain ==
    /\ task.pc \in {"done", "raised"}
    /\ task.calls < MaxCascadeCalls
    /\ task' = [task EXCEPT !.pc = "start", !.calls = task.calls + 1]
    /\ UNCHANGED <<game, signups, next_id, now, jobs, signup_open, req, sched, sel_log, requests, promoted>>

(***************************************************************************)
(* The poll loop: Scheduler._tick and Scheduler._execute_job               *)
(***************************************************************************)
MaxTime == 2

\* the clock moves on
Advance ==
    /\ now < MaxTime
    /\ now' = now + 1
    /\ UNCHANGED <<game, signups, next_id, jobs, signup_open, req, task, sched, sel_log, requests, promoted>>

FutureDue_AnyPhase(g, t) ==
    /\ g.notify_future_at # NoTime
    /\ g.notify_future_at <= t
    /\ ~g.closed
\* _process_future_notifications, lines 109-117: the game is picked up
FutureDue(g, t) ==
    /\ g.phase = "created"
    /\ g.notify_future_at # NoTime
    /\ g.notify_future_at <= t
    /\ ~g.closed

DueJobs_WithRunning(J, t) ==
    {jt \in JobTypes : J[jt].status \in {"pending", "running"} /\ J[jt].scheduled_at <= t}
\* lines 88-94: the pending jobs due at t
DueJobs(J, t) == {jt \in JobTypes : J[jt].status = "pending" /\ J[jt].scheduled_at <= t}

DueOrders_Unordered(J, t) ==
    {o \in [1..Cardinality(DueJobs(J, t)) -> DueJobs(J, t)] :
        \A i, j \in DOMAIN o : i # j => o[i] # o[j]}
\* ORDER BY scheduled_at ASC: the orders the statement can return them in
DueOrders(J, t) ==
    {o \in [1..Cardinality(DueJobs(J, t)) -> DueJobs(J, t)] :
        /\ \A i, j \in DOMAIN o : i # j => o[i] # o[j]
        /\ \A i, j \in DOMAIN o : i < j => J[o[i]].scheduled_at <= J[o[j]].scheduled_at}

\* _tick with a delayed game that is due, lines 125-131: notified_at and phase
TickFuture ==
    /\ sched.pc = "sleep"
    /\ FutureDue(game, now)
    /\ game' = [game EXCEPT !.notified_at = now, !.phase = "notifying_high"]
    /\ sched' = [SchedIdle EXCEPT !.pc = "future_notify", !.g = game, !.start = now]
    /\ UNCHANGED <<signups, next_id, now, jobs, signup_open, req, task, sel_log, requests, promoted>>

\* line 134: the high tier is notified
TickFutureNotify ==
    /\ sched.pc = "future_notify"
    /\ NotifyPriorityTier("high", sched.g)
    /\ sched' = [sched EXCEPT !.pc = "future_cascade"]
    /\ UNCHANGED <<game, now, jobs, req, task, sel_log, requests, promoted>>

\* line 137: _schedule_cascade_jobs; its exception leaves _tick and is caught
\* by _run_loop, so this tick executes no job
TickFutureCascade ==
    /\ sched.pc = "future_cascade"
    /\ jobs' = ScheduleCascadeJobs(jobs, game.algorithm, sched.start)
    /\ IF ScheduleCascadeRaises \/ DueJobs(jobs', sched.start) = {}
       THEN sched' = SchedIdle
       ELSE \E o \in DueOrders(jobs', sched.start) :
              sched' = [SchedIdle EXCEPT !.pc = "exec", !.due = o, !.start = sched.start]
    /\ UNCHANGED <<game, signups, next_id, now, signup_open, req, task, sel_log, requests, promoted>>

\* _tick with no delayed game due, lines 88-94: the due jobs are fetched
TickJobs ==
    /\ sched.pc = "sleep"
    /\ ~FutureDue(game, now)
    /\ DueJobs(jobs, now) # {}
    /\ \E o \in DueOrders(jobs, now) :
         sched' = [SchedIdle EXCEPT !.pc = "exec", !.due = o, !.start = now]
    /\ UNCHANGED <<game, signups, next_id, now, jobs, signup_open, req, task, sel_log, requests, promoted>>

Job == Head(sched.due)

\* the loop of line 96 moves to the next fetched job, or the tick ends
NextJob == IF Len(sched.due) > 1
           THEN [SchedIdle EXCEPT !.pc = "exec", !.due = Tail(sched.due), !.start = sched.start]
           ELSE SchedIdle

\* _complete_job, lines 217-222
CompleteJob(J, jt) == [J EXCEPT ![jt].status = "completed", ![jt].executed_at = now]

FailJob_Retry(J, jt) == [J EXCEPT ![jt].status = "pending"]
\* the except branch, lines 204-213: status failed, error_message, executed_at
FailJob(J, jt) == [J EXCEPT ![jt].status = "failed", ![jt].error_message = "error",
                            ![jt].executed_at = now]

\* _execute_job, lines 148-152: UPDATE ... SET status = 'running' and commit
ExecMarkRunning ==
    /\ sched.pc = "exec"
    /\ jobs' = [jobs EXCEPT ![Job].status = "running"]
    /\ sched' = [sched EXCEPT !.pc = "check"]
    /\ UNCHANGED <<game, signups, next_id, now, signup_open, req, task, sel_log, requests, promoted>>

\* lines 156-164: the game is closed; _complete_job is issued and the handler
\* returns before any commit, so the completion is committed by the next
\* job's commit, and lost when the tick's connection closes first
ExecSkipClosed ==
    /\ sched.pc = "check"
    /\ game.closed
    /\ jobs' = IF Len(sched.due) > 1 THEN CompleteJob(jobs, Job) ELSE jobs
    /\ sched' = NextJob
    /\ UNCHANGED <<game, signups, next_id, now, signup_open, req, task, sel_log, requests, promoted>>

\* lines 156-166: the open game is read into g
ExecCheckGame ==
    /\ sched.pc = "check"
    /\ ~game.closed
    /\ sched' = [sched EXCEPT !.pc = "dispatch", !.g = game]
    /\ UNCHANGED <<game, signups, next_id, now, jobs, signup_open, req, task, sel_log, requests, promoted>>

\* lines 168-173 and 201-202
ExecNotifyStandard ==
    /\ sched.pc = "dispatch" /\ Job = "notify_standard"
    /\ NotifyPriorityTier("standard", sched.g)
    /\ game' = [game EXCEPT !.phase = "notifying_standard"]
    /\ jobs' = CompleteJob(jobs, Job)
    /\ sched' = NextJob
    /\ UNCHANGED <<now, req, task, sel_log, requests, promoted>>

SpotsOpen_Always(g, S) == TRUE
\* _check_spots_open, lines 279-287
SpotsOpen(g, S) == ~g.cap_enabled \/ InCount(S) < g.cap

\* lines 175-187 and 201-202
ExecNotifyLow ==
    /\ sched.pc = "dispatch" /\ Job = "notify_low"
    /\ IF SpotsOpen(sched.g, signups)
       THEN /\ NotifyPriorityTier("low", sched.g)
            /\ game' = [game EXCEPT !.phase = "notifying_low"]
       ELSE UNCHANGED <<game, signups, next_id, signup_open, requests, promoted>>
    /\ jobs' = CompleteJob(jobs, Job)
    /\ sched' = NextJob
    /\ UNCHANGED <<now, req, task, sel_log, requests, promoted>>

\* lines 198-202; no row of type notify_high is ever inserted, so the poll
\* loop never takes this branch and Poll leaves it out
ExecNotifyHigh ==
    /\ sched.pc = "dispatch" /\ Job = "notify_high"
    /\ NotifyPriorityTier("high", sched.g)
    /\ jobs' = CompleteJob(jobs, Job)
    /\ sched' = NextJob
    /\ UNCHANGED <<game, now, req, task, sel_log, requests, promoted>>

\* lines 166-213: a statement of the job's body raises (a store error such as
\* sqlite3.OperationalError, or the ValueError of run_random_selection) before
\* the body has written anything; the except branch marks the job failed and
\* commits, and the loop of line 96 goes on
ExecRaise ==
    /\ sched.pc = "dispatch"
    /\ jobs' = FailJob(jobs, Job)
    /\ sched' = NextJob
    /\ UNCHANGED <<game, signups, next_id, now, signup_open, req, task, sel_log, requests, promoted>>

\* line 190: the guard of the scheduled selection, on the row read at line 156
SelectionGuard(g) == ~g.selection_done /\ g.algorithm = "random"

\* lines 189-196 with the guard false, and 201-202
ExecSelectionSkip ==
    /\ sched.pc = "dispatch" /\ Job = "run_selection"
    /\ ~SelectionGuard(sched.g)
    /\ jobs' = CompleteJob(jobs, Job)
    /\ sched' = NextJob
    /\ UNCHANGED <<game, signups, next_id, now, signup_open, req, task, sel_log, requests, promoted>>

\* lines 189-192 and run_random_selection, lines 25-45: the guard holds, the
\* game row and the signups are read
ExecSelectionRead ==
    /\ sched.pc = "dispatch" /\ Job = "run_selection"
    /\ SelectionGuard(sched.g)
    /\ sched' = [sched EXCEPT !.pc = "job_sel_commit", !.g = game,
                              !.rows = OrderBySignedUpAt(signups)]
    /\ UNCHANGED <<game, signups, next_id, now, jobs, signup_open, req, task, sel_log, requests, promoted>>

\* run_random_selection, lines 47-114
ExecSelectionCommit ==
    /\ sched.pc = "job_sel_commit"
    /\ \E hf \in Perms(Len(HighPri(sched.g, sched.rows))),
          of \in Perms(Len(Others(sched.g, sched.rows))) :
         signups' = ApplySelection(signups,
                        SelectionResult(sched.g, sched.rows, hf, of))
    /\ game' = MarkSelectionDone(game)
    /\ sel_log' = Append(sel_log, "job")
    /\ sched' = [sched EXCEPT !.pc = "job_complete"]
    /\ UNCHANGED <<next_id, now, jobs, signup_open, req, task, requests, promoted>>

\* run_random_selection raises at one of its statements (a store error) after
\* k of its UPDATEs: the except branch of _execute_job, lines 204-213, marks
\* the job failed and commits on the same connection, which also commits the
\* UPDATEs already executed in the open transaction
ExecSelectionRaise ==
    /\ sched.pc = "job_sel_commit"
    /\ \E hf \in Perms(Len(HighPri(sched.g, sched.rows))),
          of \in Perms(Len(Others(sched.g, sched.rows))) :
         LET u == SelectionUpdates(SelectionResult(sched.g, sched.rows, hf, of))
         IN  \E k \in 0..Len(u) : signups' = ApplyUpdates(signups, u, k)
    /\ jobs' = FailJob(jobs, Job)
    /\ sched' = NextJob
    /\ UNCHANGED <<game, next_id, now, signup_open, req, task, sel_log, requests, promoted>>

\* lines 201-202 after the selection
ExecSelectionComplete ==
    /\ sched.pc = "job_complete"
    /\ jobs' = CompleteJob(jobs, Job)
    /\ sched' = NextJob
    /\ UNCHANGED <<game, signups, next_id, now, signup_open, req, task, sel_log, requests, promoted>>

(***************************************************************************)
(* Spec: the request handlers, the creation task and the poll loop running *)
(* concurrently on one game                                                *)
(***************************************************************************)
MaxDelay == 1

GameRow(alg, cap, ce, ha, ph, sd, na, nfa) ==
    [algorithm |-> alg, cap |-> cap, cap_enabled |-> ce, random_high_auto |-> ha,
     phase |-> ph, selection_done |-> sd, closed |-> FALSE,
     notified_at |-> na, notify_future_at |-> nfa]

OwnerRows(ps, st) ==
    {[id |-> p, player |-> p, status |-> st, owner_added |-> TRUE, at |-> 0] : p \in ps}

\* the game row and the owner-added signups create_game (lines 1066-1081) and
\* create_games_batch (lines 1103-1118) insert
CreatedStore ==
    /\ \E alg \in Algorithms, ce \in BOOLEAN, ha \in BOOLEAN, nfa \in {NoTime, 1} :
         game = GameRow(alg, MinCap, ce, ha, "created", FALSE, NoTime, nfa)
    /\ \E ps \in SUBSET {2} : signups = OwnerRows(ps, "pending")
    /\ jobs = [t \in JobTypes |-> NoJob]
    /\ next_id = MaxPlayers + 1
    /\ signup_open = [p \in Players |-> 0]

\* the task of a first call schedule_game_notifications(game_id, na)
FirstCall(na) == [NoTask EXCEPT !.pc = "start", !.calls = 1, !.notify_at = na]

\* create_game, lines 1066-1083: the rows and the task
\* schedule_game_notifications(game_id, req.notify_future_at)
InitCreated ==
    /\ CreatedStore
    /\ task = FirstCall(game.notify_future_at)

\* create_games_batch, lines 1096-1123, and _schedule_batch: every game of the
\* batch is inserted with the notify_future_at of its own request and
\* scheduled with the notify_future_at of the batch's first request
InitCreatedBatch ==
    /\ CreatedStore
    /\ \E first \in {NoTime, 1} : task = FirstCall(first)

\* a store holding the game once its cascade has started (the high tier
\* notified and auto-admitted as in lines 394-416), with the cascade rows as
\* lines 307-338 write them for the group's delays.  From InitCreated no such
\* row is ever written (ScheduleCascadeRaises), so the poll loop's handling of
\* job rows is exercised from a store that already holds them.
CascadingStore ==
    /\ \E alg \in {"first_come", "random"}, ce \in BOOLEAN, ha \in BOOLEAN :
         game = GameRow(alg, MinCap, ce, ha, "notifying_high", FALSE, 0, NoTime)
    /\ \E ps \in SUBSET {2} :
         signups = IF AutoAdmits(game)
                   THEN AutoSignup(OwnerRows(ps, "pending"),
                                   {p \in Players : PlayerPriority(p) = "high"},
                                   MaxPlayers + 1, 0)
                   ELSE OwnerRows(ps, "pending")
    /\ next_id = MaxPlayers + 1 + Cardinality(signups)
    /\ signup_open = LogSignupOpen([p \in Players |-> 0],
                                   {p \in Players : PlayerPriority(p) = "high"})
    /\ \E hp \in 0..MaxDelay, alt \in 0..MaxDelay, rw \in 0..MaxDelay :
         jobs = CascadeRows([t \in JobTypes |-> NoJob], game.algorithm, 0, hp, alt, rw)

InitCascading == CascadingStore /\ task = NoTask

\* the seeded first_come game, lines 232-244 (active, selection_done, its
\* signups in), after k players in all are in and the m players who signed up
\* once it was full are waitlisted
SeededRows(k, m) ==
    {[id |-> p, player |-> p, status |-> "in", owner_added |-> (p = 1), at |-> 0] :
        p \in 1..k}
    \cup {[id |-> p, player |-> p, status |-> "waitlist", owner_added |-> FALSE,
           at |-> (p - k) \div 2] : p \in (k + 1)..(k + m)}

InitSeeded ==
    /\ \E cap \in Caps, ce \in BOOLEAN :
         game = GameRow("first_come", cap, ce, TRUE, "active", TRUE, 0, NoTime)
    /\ \E k \in 0..MaxPlayers, m \in 0..MaxPlayers :
         /\ k + m <= MaxPlayers
         /\ k <= Cap(game)
         /\ m > 0 => k = Cap(game)
         /\ signups = SeededRows(k, m)
    /\ now = 1

\* the seeded random game, lines 237-247: signup phase, its signups pending
InitSeededRandom ==
    /\ \E cap \in Caps, ce \in BOOLEAN, ha \in BOOLEAN :
         game = GameRow("random", cap, ce, ha, "signup", FALSE, 0, NoTime)
    /\ \E ps \in SUBSET Players :
         signups = {[id |-> p, player |-> p, status |-> "pending",
                     owner_added |-> (p = 1), at |-> 0] : p \in ps}
    /\ now = 1

Init ==
    /\ (InitCreated \/ InitCascading) /\ now = 0
    /\ NoRequests

Close == \E ph \in {"closed", "cancelled"} : CloseGame(ph)

Task == TaskStart \/ TaskNotifyHigh \/ TaskScheduleCascade \/ TaskAgain

\* step 1 of _tick: the delayed games that are due
PollFuture == TickFuture \/ TickFutureNotify \/ TickFutureCascade

\* step 2 of _tick: the due jobs, when no request has run the selection (the
\* guard of line 190 then holds whenever a run_selection job is dispatched)
PollJobsUnselected ==
    \/ TickJobs
    \/ ExecMarkRunning \/ ExecSkipClosed \/ ExecCheckGame
    \/ ExecNotifyStandard \/ ExecNotifyLow \/ ExecRaise
    \/ ExecSelectionRead \/ ExecSelectionCommit
    \/ ExecSelectionComplete

\* step 2 of _tick: the due jobs
PollJobs == PollJobsUnselected \/ ExecSelectionSkip

Poll == PollFuture \/ PollJobs

ManualSelection == ManualSelectionRead(1) \/ ManualSelectionCommit(1)

Next == ManualSelection \/ Close \/ Task \/ Poll \/ Advance

Spec == Init /\ [][Next]_vars

(***************************************************************************)
(* SpecPoll: the poll loop executing the due jobs of a game whose cascade  *)
(* rows are written, with close/cancel requests                            *)
(***************************************************************************)
InitPoll == InitCascading /\ now = 0 /\ NoRequests

NextPoll == PollJobsUnselected \/ Close \/ Advance

SpecPoll == InitPoll /\ [][NextPoll]_vars

(***************************************************************************)
(* SpecRestart: the poll loop as in SpecPoll, with the loop task cancelled *)
(* during a tick (Scheduler.stop, or the process ending) and started again *)
(***************************************************************************)
\* Scheduler.stop, lines 50-57, then Scheduler.start, lines 43-46: the
\* CancelledError leaves _tick at its current await (it is not an Exception,
\* so line 204 does not catch it), the connection is closed, and the next
\* loop starts with a tick; what was committed stays
Restart ==
    /\ sched.pc # "sleep"
    /\ sched' = SchedIdle
    /\ UNCHANGED <<game, signups, next_id, now, jobs, signup_open, req, task, sel_log, requests, promoted>>

NextRestart == PollJobsUnselected \/ Close \/ Advance \/ Restart

SpecRestart == InitPoll /\ [][NextRestart]_vars

(***************************************************************************)
(* SpecSelRaise: the poll loop as in SpecPoll, where the scheduled         *)
(* selection may also raise part-way                                       *)
(***************************************************************************)
NextSelRaise == PollJobsUnselected \/ ExecSelectionRaise \/ Close \/ Advance

SpecSelRaise == InitPoll /\ [][NextSelRaise]_vars

(***************************************************************************)
(* SpecCascade: cascade starts alone: the creation task of a game created  *)
(* alone or in a batch, a further call of schedule_game_notifications, and *)
(* the poll loop's delayed start                                           *)
(***************************************************************************)
InitCascade ==
    /\ \/ InitCreatedBatch
       \/ CascadingStore /\ task = [NoTask EXCEPT !.pc = "done", !.calls = 1]
    /\ now = 0
    /\ NoRequests

NextCascade == Task \/ PollFuture \/ Advance

SpecCascade == InitCascade /\ [][NextCascade]_vars

(***************************************************************************)
(* SpecCreated: a game from its creation, with every algorithm: the        *)
(* creation task, the delayed start, run-selection and close requests      *)
(***************************************************************************)
InitFromCreation == InitCreated /\ now = 0 /\ NoRequests

NextCreated == ManualSelection \/ Close \/ Task \/ PollFuture \/ Advance

SpecCreated == InitFromCreation /\ [][NextCreated]_vars

(***************************************************************************)
(* SpecLive: a game from its creation with no run-selection request: the   *)
(* creation task runs to its end (asyncio runs a created task), the poll   *)
(* loop ticks every POLL_INTERVAL for as long as the process runs          *)
(* (_run_loop catches every exception of _tick), and time passes           *)
(***************************************************************************)
NextLive == Task \/ PollFuture \/ Close \/ Advance

SpecLive ==
    /\ InitFromCreation
    /\ [][NextLive]_vars
    /\ WF_<<task.pc>>(TaskStart \/ TaskNotifyHigh \/ TaskScheduleCascade)
    /\ WF_<<sched.pc>>(PollFuture)
    /\ WF_now(Advance)

(***************************************************************************)
(* SpecEarly: a game from its creation with signup requests arriving from  *)
(* then on (signup_for_game tests closed only, not phase), the cascade     *)
(* start, immediate or delayed, and a run-selection request                *)
(***************************************************************************)
Signup(w) == (\E p \in Players : SignupCheck(w, p)) \/ SignupInsert(w)

NextEarly ==
    \/ Signup(1)
    \/ ManualSelection
    \/ TaskStart \/ TaskNotifyHigh \/ TaskScheduleCascade
    \/ PollFuture
    \/ Advance

SpecEarly == InitFromCreation /\ [][NextEarly]_vars

(***************************************************************************)
(* SpecReq: signup, drop, add-player and run-selection requests handled    *)
(* concurrently on a game past its cascade                                 *)
(***************************************************************************)
InitReq ==
    /\ InitSeeded \/ InitSeededRandom
    /\ next_id = MaxPlayers + 1
    /\ signup_open = [p \in Players |-> 0]
    /\ jobs = [t \in JobTypes |-> NoJob]
    /\ task = NoTask
    /\ NoRequests

Handlers(w) ==
    \/ \E p \in Players : SignupCheck(w, p)
    \/ SignupInsert(w)
    \/ \E p \in Players : DropDelete(w, p)
    \/ DropSelectNext(w)
    \/ DropPromote(w)
    \/ \E p \in Players : AddPlayer(w, p)
    \/ ManualSelectionRead(w)
    \/ ManualSelectionCommit(w)

NextReq == (\E w \in Workers : Handlers(w)) \/ Advance

SpecReq == InitReq /\ [][NextReq]_vars

(***************************************************************************)
(* SpecSeq: the same requests handled one at a time                        *)
(***************************************************************************)
NextSeq == Handlers(1) \/ Advance

SpecSeq == InitReq /\ [][NextSeq]_vars

(***************************************************************************)
(* SpecSignup: the requests handled one at a time, on the seeded games and *)
(* on games created through create_game, whose selection_done is 0         *)
(***************************************************************************)
\* a game inserted by create_game (selection_done 0) after its cascade start,
\* with signups made since
InitUnselected ==
    /\ \E alg \in Algorithms, ce \in BOOLEAN :
         game = GameRow(alg, MinCap, ce, TRUE, "notifying_high", FALSE, 0, NoTime)
    /\ \E ps \in SUBSET {1, 2} :
         signups = {[id |-> p, player |-> p, status |-> "pending",
                     owner_added |-> FALSE, at |-> 0] : p \in ps}
    /\ now = 1

InitSignup ==
    /\ InitSeeded \/ InitSeededRandom \/ InitUnselected
    /\ next_id = MaxPlayers + 1
    /\ signup_open = [p \in Players |-> 0]
    /\ jobs = [t \in JobTypes |-> NoJob]
    /\ task = NoTask
    /\ NoRequests

SpecSignup == InitSignup /\ [][NextSeq]_vars

(***************************************************************************)
(* Claims on the selection engine (checked under SpecSel)                  *)
(***************************************************************************)
NonOwner(S) == {s \in S : ~s.owner_added}
HighNonOwner(S) == {s \in NonOwner(S) : Priority(s.player) = "high"}
OtherNonOwner(S) == {s \in NonOwner(S) : Priority(s.player) # "high"}
WithStatus(S, st) == {s \in S : s.status = st}
Min(a, b) == IF a <= b THEN a ELSE b

\* C3: with cap_enabled and at most cap owner-added signups, after a
\* selection the number of signups with status in is at most cap.
C3_CapAfterSelection ==
    (game.selection_done /\ game.cap_enabled /\ OwnerCount(signups) <= game.cap)
        => InCount(signups) <= game.cap

C3_Witness ==
    /\ game.selection_done /\ game.cap_enabled
    /\ OwnerCount(signups) <= game.cap
    /\ InCount(signups) = game.cap
    /\ WithStatus(signups, "waitlist") # {}

\* C4: after a selection every owner-added signup has status in, whatever
\* the cap and however many owner-added signups there are.
C4_OwnerAddedIn ==
    game.selection_done => \A s \in signups : s.owner_added => s.status = "in"

C4_Witness ==
    /\ game.selection_done /\ game.cap_enabled
    /\ OwnerCount(signups) > game.cap
    /\ \A s \in signups : s.owner_added => s.status = "in"

\* C5: with cap_enabled and at least cap owner-added signups, a selection
\* admits no signup that is not owner-added: each ends with status waitlist.
C5_NoneAdmittedWhenOverbooked ==
    (game.selection_done /\ game.cap_enabled /\ OwnerCount(signups) >= game.cap)
        => \A s \in NonOwner(signups) : s.status = "waitlist"

C5_Witness ==
    /\ game.selection_done /\ game.cap_enabled /\ game.random_high_auto
    /\ OwnerCount(signups) > game.cap
    /\ HighNonOwner(signups) # {}
    /\ \A s \in signups : s.status = (IF s.owner_added THEN "in" ELSE "waitlist")

\* C6: with cap_enabled and random_high_auto, when the high-priority signups
\* that are not owner-added number at most cap minus the owner-added count,
\* all of them end in, exactly min(count(others), cap - owner-added - high) of
\* the other signups end in, and the rest of the others end waitlist.
C6_HighGuarantee ==
    (/\ game.selection_done /\ game.cap_enabled /\ game.random_high_auto
     /\ Cardinality(HighNonOwner(signups)) <= game.cap - OwnerCount(signups))
        => /\ \A s \in HighNonOwner(signups) : s.status = "in"
           /\ Cardinality(WithStatus(OtherNonOwner(signups), "in"))
                = Min(Cardinality(OtherNonOwner(signups)),
                      game.cap - OwnerCount(signups) - Cardinality(HighNonOwner(signups)))
           /\ \A s \in OtherNonOwner(signups) : s.status \in {"in", "waitlist"}

C6_Witness ==
    /\ game.selection_done /\ game.cap_enabled /\ game.random_high_auto
    /\ OwnerCount(signups) >= 1
    /\ HighNonOwner(signups) # {}
    /\ \A s \in HighNonOwner(signups) : s.status = "in"
    /\ WithStatus(OtherNonOwner(signups), "in") # {}
    /\ WithStatus(OtherNonOwner(signups), "waitlist") # {}

(***************************************************************************)
(* Claims on the request handlers and the poll loop                        *)
(***************************************************************************)
\* C1: once selection_done is true, a selection invoked again through either
\* entry point changes no signup status and leaves selection_done and phase
\* as they are.
C1_SelectionOnce ==
    [][(game.selection_done /\ sel_log' # sel_log)
          => (signups' = signups /\ game' = game)]_vars

\* C2: of a manual run-selection request and the scheduled run_selection job
\* on one game, at most one performs the selection.
C2_AtMostOneSelects ==
    ~("manual" \in Range(sel_log) /\ "job" \in Range(sel_log))

\* C7: in every reachable state of a game with cap_enabled the number of
\* signups with status in does not exceed cap, unless the owner-added
\* signups alone exceed cap.
C7_CapInvariant ==
    (game.cap_enabled /\ OwnerCount(signups) <= game.cap)
        => InCount(signups) <= game.cap

Earliest(S, s) ==
    s.status = "waitlist" /\ \A q \in S : q.status = "waitlist" => s.at <= q.at

\* C8: on a first_come game with selection_done, when a player whose signup
\* was in drops, the waitlisted signup with the earliest signed_up_at becomes
\* in and no other signup changes status.
C8_FifoPromotion ==
    [][/\ (/\ req[1].pc = "drop_next" /\ req'[1] # req[1]
           /\ game.algorithm = "first_come" /\ game.selection_done
           /\ WithStatus(signups, "waitlist") # {})
          => req'[1].pc = "drop_promote"
       /\ (req[1].pc = "drop_promote" /\ req'[1] # req[1])
          => \E s \in signups :
               /\ Earliest(signups, s)
               /\ signups' = (signups \ {s}) \cup {[s EXCEPT !.status = "in"]}]_vars

C8_Witness ==
    /\ game.algorithm = "first_come" /\ game.selection_done
    /\ req[1].pc = "idle"
    /\ \E s \in signups :
         /\ s.player \in promoted /\ s.status = "in"
         /\ \E q \in signups : q.status = "waitlist" /\ q.at > s.at

\* C9: two concurrent drops by two in players on a first_come game with at
\* least two waitlisted signups promote two distinct waitlisted players.
C9_DistinctPromotions ==
    \A w1, w2 \in Workers :
        (/\ w1 # w2 /\ req[w1].pc = "drop_promote" /\ req[w2].pc = "drop_promote"
         /\ Cardinality(WithStatus(signups, "waitlist")) >= 2)
            => req[w1].next_up.id # req[w2].next_up.id

JobRows(jt) == IF jobs[jt].status = "none" THEN 0 ELSE 1

\* C10: once the cascade-start entry point has run for the game, once or
\* twice, there is exactly one notify_standard row, one notify_low row, and
\* one run_selection row if the game is random (none otherwise).
C10_CascadeRows ==
    (task.pc \in {"done", "raised"} /\ game.notify_future_at = NoTime)
        => /\ JobRows("notify_standard") = 1
           /\ JobRows("notify_low") = 1
           /\ JobRows("run_selection") = (IF game.algorithm = "random" THEN 1 ELSE 0)

(***************************************************************************)
(* Claims on the job table and the poll loop                               *)
(***************************************************************************)
\* a scheduling attempt (_schedule_cascade_jobs) ends with this step
SchedulingAttempt ==
    \/ task.pc = "cascade" /\ task'.pc # "cascade"
    \/ sched.pc = "future_cascade" /\ sched'.pc # "future_cascade"

PhaseRank(ph) ==
    CASE ph = "created"            -> 0
      [] ph = "notifying_high"     -> 1
      [] ph = "notifying_standard" -> 2
      [] ph = "notifying_low"      -> 3
      [] ph = "signup"             -> 4
      [] OTHER                     -> 5

\* a step of the creation task or of the poll loop
SchedulerStep ==
    <<task.pc, task.calls, sched.pc, sched.due>>' # <<task.pc, task.calls, sched.pc, sched.due>>

\* C12: while the game is open, no scheduler action (cascade start,
\* notify_standard, notify_low, run_selection) moves phase to an earlier
\* position of created, notifying_high, notifying_standard, notifying_low,
\* signup, active.
C12_PhaseForward ==
    [][(SchedulerStep /\ ~game.closed /\ ~game'.closed)
          => PhaseRank(game'.phase) >= PhaseRank(game.phase)]_vars

\* C13: once a close or cancel request has committed, no scheduler action
\* changes the game's phase or runs its selection, even when the close
\* interleaves with a job that had already passed its game-is-open check.
C13_ClosedFrozen ==
    [][(SchedulerStep /\ game.closed)
          => (game'.phase = game.phase /\ sel_log' = sel_log)]_vars

\* C14: a due job executed for a closed game ends completed, and its
\* execution sends no notification, creates or changes no signup and changes
\* no field of the game.
C14_ClosedJobCompleted ==
    [][(sched.pc = "check" /\ sched'.pc # "check" /\ game.closed)
          => /\ jobs'[Head(sched.due)].status = "completed"
             /\ UNCHANGED <<game, signups, signup_open, promoted>>]_vars

LowTier == {p \in Players : PlayerPriority(p) = "low"}

\* C15: when the notify_low job runs, if cap_enabled is false or the in-count
\* is below cap the low tier is notified and phase becomes notifying_low; if
\* the game is full no low-tier notification is sent and phase is left
\* unchanged; in both cases the job ends completed.
C15_NotifyLow ==
    [][(/\ sched.pc = "dispatch" /\ Head(sched.due) = "notify_low"
        /\ sched'.pc # "dispatch" /\ jobs'["notify_low"].status # "failed")
          => /\ jobs'["notify_low"].status = "completed"
             /\ IF ~game.cap_enabled \/ InCount(signups) < game.cap
                THEN /\ \A p \in LowTier : signup_open'[p] >= 1
                     /\ game'.phase = "notifying_low"
                ELSE /\ signup_open' = signup_open
                     /\ game'.phase = game.phase]_vars

C15_Witness ==
    /\ jobs["notify_low"].status = "completed"
    /\ game.cap_enabled /\ InCount(signups) >= game.cap
    /\ game.phase = "active" /\ ~game.closed
    /\ \A p \in LowTier : signup_open[p] = 0

\* the status changes of the lifecycle pending, running, completed or failed
LifecycleSteps ==
    {<<"none", "pending">>, <<"pending", "running">>,
     <<"running", "completed">>, <<"running", "failed">>}

\* C16: every job's status follows pending, running, then completed or
\* failed, each step taken once: no operation moves a job from pending
\* directly to completed or failed, and none sets a job back to pending.
C16_JobLifecycle ==
    [][\A jt \in JobTypes :
          jobs'[jt].status # jobs[jt].status
             => <<jobs[jt].status, jobs'[jt].status>> \in LifecycleSteps]_vars

\* C17: a job that has reached completed or failed never changes status
\* again and is never executed again, including when a close or cancel marks
\* it completed after a tick has read it into its list of due jobs.
C17_TerminalStatus ==
    [][\A jt \in JobTypes :
          jobs[jt].status \in {"completed", "failed"} => jobs'[jt] = jobs[jt]]_vars

\* the body of the dispatched job raises with this step: the step leaves the
\* dispatch without completing the job and without entering the selection
JobRaises ==
    /\ sched.pc = "dispatch"
    /\ sched'.pc \notin {"dispatch", "job_sel_commit"}
    /\ jobs'[Head(sched.due)].status # "completed"

\* a tick fetches its list of due jobs with this step
TickFetches == sched.pc \in {"sleep", "future_cascade"} /\ sched'.pc = "exec"

RaisedInTick ==
    /\ sched.pc # "sleep"
    /\ \E jt \in JobTypes :
         /\ jobs[jt].status = "failed"
         /\ jobs[jt].scheduled_at <= sched.start
         /\ jobs[jt].executed_at >= sched.start
         /\ jt \notin Range(sched.due)

\* C19: when the execution of one due job raises, every other job that was
\* due in the same tick is still executed in that tick and reaches completed
\* or failed.
C19_FailureIsolated ==
    [][/\ (JobRaises /\ Len(sched.due) > 1)
          => (sched'.pc = "exec" /\ sched'.due = Tail(sched.due))
       /\ (RaisedInTick /\ sched.due # <<>> /\ sched'.due # sched.due)
          => jobs'[Head(sched.due)].status \in {"completed", "failed"}]_vars

\* C20: selection_done never becomes true for a game whose algorithm is not
\* random, and once true it never returns to false.
C20_SelectionDoneRandomOnly ==
    [][/\ (~game.selection_done /\ game'.selection_done) => game.algorithm = "random"
       /\ game.selection_done => game'.selection_done]_vars

C20_Witness ==
    /\ game.selection_done /\ game.algorithm = "random"
    /\ game.closed /\ Len(sel_log) = 2

(***************************************************************************)
(* Claims on the cascade start                                             *)
(***************************************************************************)
\* C21: no player receives more than one signup_open notification for the
\* game, over any sequence of cascade starts (game-created handling invoked
\* again included) and tier notification jobs.
C21_NotifiedOnce == \A p \in Players : signup_open[p] <= 1


HighTier == {p \in Players : PlayerPriority(p) = "high"}

\* C22: for a random game with random_high_auto, every high-priority player
\* notified at cascade start holds a signup with owner_added true, and after
\* any later selection that signup has status in, whatever the cap and also
\* when the player held a signup of their own before the cascade started.
C22_HighAutoAdmitted ==
    [][AutoAdmits(game) =>
         \A p \in HighTier :
            signup_open'[p] >= 1 =>
               \E s \in RowOf(signups', p) :
                  /\ s.owner_added
                  /\ sel_log' # sel_log => s.status = "in"]_vars


\* game-created handling (schedule_game_notifications) returns with this step
CreatedHandlingStep == task.pc = "start" /\ task'.pc # "start"

TickStep == <<sched.pc, sched.due>>' # <<sched.pc, sched.due>>

\* a tick starts the cascade of the delayed game with this step
TickStarts == sched.pc = "sleep" /\ sched'.pc = "future_notify"

\* C24: the cascade of a delayed game is started by exactly one tick: once a
\* tick has started it, no later tick rewrites notified_at, sets phase back
\* to notifying_high or notifies the high tier a second time, even when the
\* first start raised part-way through.
C24_DelayedStartOnce ==
    [][/\ TickStarts => (game.notified_at = NoTime /\ game'.notified_at = now)
       /\ game.notified_at # NoTime => game'.notified_at # NoTime
       /\ (TickStep /\ game.notified_at # NoTime)
          => /\ game'.notified_at = game.notified_at
             /\ game'.phase = "notifying_high" => game.phase = "notifying_high"
             /\ \A p \in HighTier :
                  signup_open[p] >= 1 => signup_open'[p] = signup_open[p]]_vars

C24_Witness ==
    /\ game.notify_future_at # NoTime /\ task.notify_at # NoTime
    /\ game.notified_at = game.notify_future_at /\ now > game.notified_at
    /\ game.phase = "notifying_high"
    /\ sched.pc = "sleep"
    /\ \A p \in HighTier : signup_open[p] = 1
    /\ \A jt \in JobTypes : jobs[jt].status = "none"


\* the steps of the immediate start (schedule_game_notifications) and of the
\* delayed start (_process_future_notifications): the game update, the high
\* tier, the cascade jobs
ImmediateStarts == task.pc = "start" /\ task'.pc = "notify"
ImmediateNotifies == task.pc = "notify" /\ task'.pc # "notify"
ImmediateSchedules == task.pc = "cascade" /\ task'.pc # "cascade"
DelayedNotifies == sched.pc = "future_notify" /\ sched'.pc # "future_notify"
DelayedSchedules == sched.pc = "future_cascade" /\ sched'.pc # "future_cascade"

NoPriorNotification == \A p \in Players : signup_open[p] = 0

\* the signup of p after a cascade start on the signups S of game g
AutoAdmitted(g, S, p) ==
    IF RowOf(S, p) # {} THEN RowOf(S, p)
    ELSE IF g.algorithm = "random" /\ g.random_high_auto /\ p \in HighTier
         THEN {s \in [id : next_id..(next_id + MaxPlayers), player : {p},
                      status : {"pending"}, owner_added : {TRUE}, at : {now}] : TRUE}
         ELSE {}

\* C25: from the same store, for a game with no prior notification, the
\* delayed cascade start of the poll loop and the immediate cascade start at
\* game creation leave the same phase, the same auto-admitted signups, the
\* same scheduled jobs and the same set of notified players.
C25_DelayedEqualsImmediate ==
    [][/\ (ImmediateStarts \/ TickStarts)
          => game' = [game EXCEPT !.phase = "notifying_high", !.notified_at = now]
       /\ ((ImmediateNotifies \/ DelayedNotifies) /\ NoPriorNotification)
          => /\ \A p \in Players :
                  /\ Cardinality(RowOf(signups', p)) <= 1
                  /\ RowOf(signups', p) \subseteq AutoAdmitted(game, signups, p)
                  /\ AutoAdmitted(game, signups, p) # {} => RowOf(signups', p) # {}
             /\ signup_open' = [p \in Players |-> IF p \in HighTier THEN 1 ELSE 0]
       /\ (ImmediateSchedules \/ DelayedSchedules)
          => jobs' = ScheduleCascadeJobs(jobs, game.algorithm,
                        IF ImmediateSchedules THEN task.start ELSE sched.start)]_vars

C25_Witness ==
    /\ AutoAdmits(game) /\ game.notify_future_at # NoTime /\ task.notify_at # NoTime
    /\ task.pc = "done" /\ sched.pc = "sleep"
    /\ game.phase = "notifying_high"
    /\ \A p \in HighTier : signup_open[p] = 1 /\ \E s \in RowOf(signups, p) : s.owner_added
    /\ \A p \in Players \ HighTier : signup_open[p] = 0


\* C26: for a random game whose cascade has started, if the game is never
\* closed and the poll loop keeps ticking, selection eventually runs with no
\* manual trigger: selection_done becomes true and phase becomes active.
C26_SelectionEventually ==
    (game.algorithm = "random" /\ game.notified_at # NoTime)
        ~> (game.closed \/ (game.selection_done /\ game.phase = "active"))


(***************************************************************************)
(* Claims on the signup and drop requests                                  *)
(***************************************************************************)
\* the signup request of worker 1 commits its insert with this step
SignupCommits == req[1].pc = "signup_insert" /\ req'[1].pc = "idle"

\* C27: a new signup gets status in when the game is first_come with
\* selection_done and the live in-count is below cap (or cap is disabled),
\* waitlist when the game is first_come with selection_done and the in-count
\* is at least cap, and pending in every other case; a player who already
\* has a signup for the game gets no second one.
C27_SignupStatus ==
    [][/\ SignupCommits =>
            \E s \in signups' :
               /\ signups' = signups \cup {s} /\ s \notin signups
               /\ s.player = req[1].player /\ ~s.owner_added
               /\ s.status =
                    IF game.algorithm = "first_come" /\ game.selection_done
                    THEN IF ~game.cap_enabled \/ InCount(signups) < game.cap
                         THEN "in" ELSE "waitlist"
                    ELSE "pending"
       /\ \A p \in Players : Cardinality(RowOf(signups', p)) <= 1]_vars

C27_Witness ==
    /\ game.algorithm = "first_come" /\ game.selection_done /\ game.cap_enabled
    /\ InCount(signups) = game.cap
    /\ req[1].pc = "idle" /\ requests = 2
    /\ \E s, q \in signups :
         /\ s.id = MaxPlayers + 1 /\ s.status = "in"
         /\ q.id = MaxPlayers + 2 /\ q.status = "waitlist"


\* C28: on a random game whose selection is done, when a player whose signup
\* has status in drops, the waitlisted signup with the earliest signed_up_at
\* is promoted to in.
C28_RandomPromotion ==
    [][/\ (/\ req[1].pc = "drop_next" /\ req'[1] # req[1]
           /\ game.algorithm = "random" /\ game.selection_done
           /\ WithStatus(signups, "waitlist") # {})
          => req'[1].pc = "drop_promote"
       /\ (/\ req[1].pc = "drop_promote" /\ req'[1] # req[1]
           /\ game.algorithm = "random")
          => \E s \in signups :
               /\ Earliest(signups, s)
               /\ signups' = (signups \ {s}) \cup {[s EXCEPT !.status = "in"]}]_vars


(***************************************************************************)
(* Claims on the jobs a tick executes                                      *)
(***************************************************************************)
\* the execution of the job at the head of the tick's list starts
ExecStarts == sched.pc = "exec" /\ sched'.pc = "check"

\* C29: a tick executes only jobs whose status is pending and whose
\* scheduled_at is at or before the tick's time: no job runs before its
\* scheduled time, and a job left in running status (after a crash or a
\* cancelled tick) is never picked up by a later tick.
C29_OnlyDuePending ==
    [][/\ TickFetches =>
            \A jt \in Range(sched'.due) :
               /\ jobs'[jt].status = "pending"
               /\ jobs'[jt].scheduled_at <= sched'.start
       /\ ExecStarts =>
            /\ jobs[Head(sched.due)].scheduled_at <= now
            /\ sched.start <= now
       /\ \A jt \in JobTypes :
            (jobs[jt].status = "running" /\ jt \notin Range(sched.due))
               => /\ jobs'[jt] = jobs[jt]
                  /\ jt \notin Range(sched'.due)]_vars

C29_Witness ==
    /\ sched.pc = "exec" /\ ~game.closed
    /\ \E jt \in JobTypes :
         /\ jobs[jt].status = "running" /\ jt \notin Range(sched.due)
         /\ jobs[jt].scheduled_at < sched.start


\* C30: within one tick the due jobs are executed one after another in
\* ascending scheduled_at order: a job with a strictly later scheduled_at
\* never starts before a job with an earlier scheduled_at that is due in the
\* same tick has finished.
C30_AscendingOrder ==
    [][ExecStarts =>
          \A jt \in JobTypes :
             (/\ jobs[jt].status # "none"
              /\ jobs[jt].scheduled_at < jobs[Head(sched.due)].scheduled_at)
                => /\ jt \notin Range(sched.due)
                   /\ jobs[jt].status \in {"completed", "failed"}]_vars

C30_Witness ==
    /\ sched.pc = "check" /\ ~game.closed
    /\ \E jt \in JobTypes :
         /\ jobs[jt].status = "completed"
         /\ jobs[jt].scheduled_at < jobs[Head(sched.due)].scheduled_at
         /\ jobs[jt].executed_at >= sched.start


(***************************************************************************)
(* Claims on the cascade order and the cascade times                       *)
(***************************************************************************)
StandardTier == {p \in Players : PlayerPriority(p) = "standard"}

\* a signup_open notification is sent to a player of the tier with this step
Notifies(tier) == \E p \in tier : signup_open'[p] > signup_open[p]

\* C31: the tiers are notified in cascade order: no standard-tier signup_open
\* notification is sent before the high tier has been notified, and no
\* low-tier notification is sent before the notify_standard job has
\* executed, for any non-negative configured delays.
C31_CascadeOrder ==
    [][/\ Notifies(StandardTier) => \A p \in HighTier : signup_open[p] >= 1
       /\ Notifies(LowTier)
          => /\ jobs["notify_standard"].status \in {"completed", "failed"}
             /\ jobs["notify_standard"].executed_at # NoTime]_vars


\* the job row a cascade start writes for time at
Scheduled(jt, at) == jobs'[jt].status = "pending" /\ jobs'[jt].scheduled_at = at

\* C32: a cascade start with start time T and the configured delays schedules
\* notify_standard at T + highDelay, notify_low at T + highDelay + altDelay
\* and, only for a random game, run_selection at T + highDelay + randomWait;
\* no notify_high job is ever inserted.
C32_CascadeTimes ==
    [][/\ ((ImmediateSchedules \/ DelayedSchedules)
           /\ \A jt \in JobTypes : jobs[jt].status = "none")
          => LET T == IF ImmediateSchedules THEN task.start ELSE sched.start
             IN  /\ Scheduled("notify_standard", T + HpDelay)
                 /\ Scheduled("notify_low", T + HpDelay + AltDelay)
                 /\ IF game.algorithm = "random"
                    THEN Scheduled("run_selection", T + HpDelay + RandWait)
                    ELSE jobs'["run_selection"].status = "none"
       /\ jobs'["notify_high"].status = "none"]_vars


(***************************************************************************)
(* Claims on the result of a selection (checked under SpecSel)             *)
(***************************************************************************)
\* the results run_random_selection can return for the store it reads
Results ==
    LET rows == OrderBySignedUpAt(signups)
    IN  {SelectionResult(game, rows, hf, of) :
            hf \in Perms(Len(HighPri(game, rows))),
            of \in Perms(Len(Others(game, rows)))}

\* C33: selection partitions the game's signups: after it completes every
\* signup that existed when it read the signups has status in or waitlist
\* (none remains pending, none is in both), and the returned in_count and
\* waitlist_count equal the numbers of signups it set to in and to waitlist
\* and sum to the number of signups read.
C33_Partition ==
    [][\A res \in Results :
          signups' = ApplySelection(signups, res)
             => /\ \A s \in signups' : s.status \in {"in", "waitlist"}
                /\ Ids(res.in_players) \cap Ids(res.waitlist_players) = {}
                /\ Len(res.in_players) = InCount(signups')
                /\ Len(res.waitlist_players) = Cardinality(WithStatus(signups', "waitlist"))
                /\ Len(res.in_players) + Len(res.waitlist_players) = Cardinality(signups)]_vars

C33_Witness ==
    /\ game.selection_done
    /\ Cardinality(signups) = MaxPlayers
    /\ InCount(signups) = game.cap
    /\ Cardinality(WithStatus(signups, "waitlist")) = MaxPlayers - game.cap
    /\ \E s \in signups : s.owner_added


\* C34: the waitlist positions announced by selection are exactly 1..N with
\* no gap and no repeat, where N is the number of waitlisted signups, and
\* every overflowed high-priority signup has a smaller position than every
\* waitlisted signup of the others tier.
C34_WaitlistPositions ==
    [][\A res \in Results :
          signups' = ApplySelection(signups, res)
             => LET info == WaitlistInfo(res.waitlist_players)
                    N    == Cardinality(WithStatus(signups', "waitlist"))
                IN  /\ Len(info) = N
                    /\ {info[k].position : k \in 1..Len(info)} = 1..N
                    /\ \A j, k \in 1..Len(info) :
                          j # k => /\ info[j].position # info[k].position
                                   /\ info[j].player_id # info[k].player_id
                    /\ game.random_high_auto =>
                          \A j, k \in 1..Len(info) :
                             (/\ Priority(info[j].player_id) = "high"
                              /\ Priority(info[k].player_id) # "high")
                                => info[j].position < info[k].position]_vars

C34_Witness ==
    /\ game.selection_done /\ game.random_high_auto /\ game.cap_enabled
    /\ \E s \in HighNonOwner(signups) : s.status = "waitlist"
    /\ \E s \in HighNonOwner(signups) : s.status = "in"
    /\ \E s \in OtherNonOwner(signups) : s.status = "waitlist"


(***************************************************************************)
(* Claims on failures                                                      *)
(***************************************************************************)
\* a signup of the game changes status with this step
StatusChanges ==
    \E s \in signups : \E q \in signups' : q.id = s.id /\ q.status # s.status

\* C35: selection's status changes are persisted atomically with
\* selection_done = true and phase = active: in every state visible in the
\* store, including after a selection that raised part-way and left its job
\* failed, either all of the selection's signup status changes are present
\* together with selection_done true, or none of them is.
C35_SelectionAtomic ==
    [][StatusChanges
          => /\ game'.selection_done /\ game'.phase = "active"
             /\ \A s \in signups : \E q \in signups' :
                   q.id = s.id /\ q.status \in {"in", "waitlist"}]_vars


(***************************************************************************)
(* SpecDelivery: the poll loop as in SpecPoll, with the outcome of the     *)
(* notification gateway for the messages a job sends                       *)
(***************************************************************************)
\* what the gateway does with a message: accepts it, answers with a status
\* other than 200, 201 or 202 (or the channel is not configured), or raises
GatewayOutcomes == {"accepted", "rejected", "error"}

SendSync_Uncaught(o) == [delivered |-> o = "accepted", raised |-> o = "error"]
\* _send_email_sync, lines 115-121, and _send_sms_sync: the gateway call is
\* inside try / except Exception, which logs and returns False
SendSync(o) == [delivered |-> o = "accepted", raised |-> FALSE]

\* the messages a job body sends go through send_notification, whose result
\* (any_delivered) is only logged; a raise from the body would reach the
\* except branch of _execute_job
ExecNotifyStandardVia(o) ==
    /\ sched.pc = "dispatch" /\ Job = "notify_standard"
    /\ IF SendSync(o).raised /\ TierToNotify("standard") # {}
       THEN ExecRaise
       ELSE ExecNotifyStandard

ExecNotifyLowVia(o) ==
    /\ sched.pc = "dispatch" /\ Job = "notify_low"
    /\ IF SendSync(o).raised /\ SpotsOpen(sched.g, signups) /\ TierToNotify("low") # {}
       THEN ExecRaise
       ELSE ExecNotifyLow

\* run_random_selection, lines 116-121 (notify_selection_results), then
\* lines 201-202 of _execute_job
ExecSelectionCompleteVia(o) ==
    /\ sched.pc = "job_complete"
    /\ IF SendSync(o).raised /\ sched.rows # <<>>
       THEN /\ jobs' = FailJob(jobs, Job)
            /\ sched' = NextJob
            /\ UNCHANGED <<game, signups, next_id, now, signup_open, req, task, sel_log, requests, promoted>>
       ELSE ExecSelectionComplete

DeliveryStep(o) ==
    ExecNotifyStandardVia(o) \/ ExecNotifyLowVia(o) \/ ExecSelectionCompleteVia(o)

PollJobsDelivery ==
    \/ TickJobs
    \/ ExecMarkRunning \/ ExecSkipClosed \/ ExecCheckGame
    \/ ExecSelectionRead \/ ExecSelectionCommit
    \/ \E o \in GatewayOutcomes : DeliveryStep(o)

NextDelivery == PollJobsDelivery \/ Close \/ Advance

SpecDelivery == InitPoll /\ [][NextDelivery]_vars

InitLoop ==
    /\ \/ /\ CreatedStore
          /\ game.notify_future_at # NoTime
          /\ task = [NoTask EXCEPT !.pc = "done", !.calls = 1, !.notify_at = game.notify_future_at]
       \/ InitCascading
    /\ now = 0
    /\ NoRequests

NextLoop == PollFuture \/ PollJobsUnselected \/ Close \/ Advance

SpecLoop ==
    /\ InitLoop
    /\ [][NextLoop]_vars
    /\ WF_<<sched.pc>>(PollFuture \/ PollJobsUnselected)
    /\ WF_now(Advance)

\* C37: every pending job whose scheduled_at has passed eventually reaches
\* completed or failed as long as the poll loop is not stopped, even if
\* earlier ticks raised an exception (a tick that raises is caught and the
\* next tick still runs).
C37_DueJobsFinish ==
    \A jt \in JobTypes :
        (jobs[jt].status = "pending" /\ jobs[jt].scheduled_at <= now)
            ~> (jobs[jt].status \in {"completed", "failed"})


(***************************************************************************)
(* Claims on what a drop leaves alone                                      *)
(***************************************************************************)
\* the drop request of the player of s deletes the row with this step
Drops(s) ==
    /\ req[1].pc = "idle"
    /\ s \in signups
    /\ \A q \in signups' : q.id # s.id

\* C38: a drop of a signup whose status was waitlist or pending removes only
\* that signup: no other signup of the game changes status and no promotion
\* notification is sent; the same holds for a drop of an in signup when the
\* game has no waitlisted signup.
C38_DropFrame ==
    [][/\ \A s \in signups :
            Drops(s) => /\ signups' = signups \ {s}
                        /\ promoted' = promoted
                        /\ s.status \in {"waitlist", "pending"} => req'[1].pc = "idle"
       /\ (/\ req[1].pc = "drop_next" /\ req'[1] # req[1]
           /\ WithStatus(signups, "waitlist") = {})
            => /\ req'[1].pc = "idle"
               /\ signups' = signups
               /\ promoted' = promoted]_vars

\* one request has been handled on the seeded first_come game: a waitlisted
\* player ahead of another one dropped, and nobody was promoted
C38_Witness ==
    /\ game.algorithm = "first_come" /\ game.selection_done
    /\ requests = 1 /\ req[1].pc = "idle"
    /\ promoted = {}
    /\ InCount(signups) = Cap(game)
    /\ \E p \in Players :
         /\ RowOf(signups, p) = {}
         /\ \E q \in signups : q.status = "waitlist" /\ q.id <= MaxPlayers /\ q.player > p


(***************************************************************************)
(* Claims on signups arriving while the selection runs                     *)
(***************************************************************************)
\* C39: once selection_done is true for a random game, no signup inserted
\* before the selection committed has status pending, including a signup
\* inserted after the selection read the signups and before it committed.
C39_NoPendingAfterSelection ==
    [][(game.algorithm = "random" /\ ~game.selection_done /\ game'.selection_done)
          => \A s \in signups : \A q \in signups' : q.id = s.id => q.status # "pending"]_vars

====
